---- MODULE Spec2Model ----
(***************************************************************************)
(* Maintenance check scheduling and delayed-check detection of the         *)
(* EGA internal tool: the key-value store, the ISO week arithmetic, the    *)
(* weekly-plan and check-completion handlers of the edge function and the  *)
(* overdue classification of the delayed-devices screen.                   *)
(*                                                                         *)
(* Time is counted in whole days since 1970-01-01 (UTC).  Strings that     *)
(* the code builds by concatenation (keys, decimal numbers) are sequences  *)
(* of one-character or one-word tokens, so that formatting, parsing and    *)
(* prefix matching are computed and not assumed.                           *)
(***************************************************************************)
EXTENDS Integers, Sequences, FiniteSets, TLC

\* ------------------------------------------------------------------ bounds
\* number of devices POST /devices may create
MaxDevices == 2
\* number of steps: state-changing requests served and weekly clock advances
MaxSteps == 4

\* ------------------------------------------------------- calendar (JS Date)
\* first instant of the model: Monday 2024-12-23, ISO week 52 of 2024
FirstDay == 20080

LeapsBefore(y) == ((y - 1) \div 4) - ((y - 1) \div 100) + ((y - 1) \div 400)

\* day number of January 1st of year y
YearStart(y) == 365 * (y - 1970) + LeapsBefore(y) - LeapsBefore(1970)

\* Date.prototype.getFullYear
getFullYear(d) ==
    CHOOSE y \in (1970 + d \div 366)..(1970 + d \div 365) :
        YearStart(y) <= d /\ d < YearStart(y + 1)

\* Date.prototype.getDay: 0 = Sunday .. 6 = Saturday (1970-01-01 was a Thursday)
getDay(d) == (d + 4) % 7

\* Math.round(n / 7) for an integer n
RoundDiv7(n) == (2 * n + 7) \div 14

\* Math.ceil(n / 7) for an integer n
CeilDiv7(n) == (n + 6) \div 7

\* getWeekNumber of the edge function
getWeekNumber(date) ==
    LET tempDate == date + 3 - ((getDay(date) + 6) % 7)
        week1    == YearStart(getFullYear(tempDate)) + 3
    IN  1 + RoundDiv7((tempDate - week1) - 3 + ((getDay(week1) + 6) % 7))

\* getWeekNumber of the delayed-devices screen and of the weekly planner
getWeekNumberUI_YearOfDate(date) ==
    LET dayNum    == IF getDay(date) = 0 THEN 7 ELSE getDay(date)
        d         == date + 4 - dayNum
        yearStart == YearStart(getFullYear(date))
    IN  CeilDiv7((d - yearStart) + 1)

getWeekNumberUI(date) ==
    LET dayNum    == IF getDay(date) = 0 THEN 7 ELSE getDay(date)
        d         == date + 4 - dayNum
        yearStart == YearStart(getFullYear(d))
    IN  CeilDiv7((d - yearStart) + 1)

\* ------------------------------------------------------ decimal strings
DigitChars == <<"0", "1", "2", "3", "4", "5", "6", "7", "8", "9">>

RECURSIVE toString(_)
\* Number.prototype.toString / template-literal formatting of a natural
toString(n) == IF n < 10 THEN <<DigitChars[n + 1]>>
               ELSE toString(n \div 10) \o <<DigitChars[(n % 10) + 1]>>

DigitValue(c) == CHOOSE v \in 0..9 : DigitChars[v + 1] = c

RECURSIVE parseIntAcc(_, _)
parseIntAcc(s, acc) ==
    IF s = <<>> \/ Head(s) \notin {DigitChars[i] : i \in 1..10} THEN acc
    ELSE parseIntAcc(Tail(s), 10 * acc + DigitValue(Head(s)))

\* parseInt of a string that starts with a digit
parseInt(s) == parseIntAcc(s, 0)


\* ------------------------------------------------------------ key strings
StartsWith(key, prefix) ==
    /\ Len(prefix) <= Len(key)
    /\ SubSeq(key, 1, Len(prefix)) = prefix

\* `device:${Date.now()}:${random}`: a fresh id per request, numbered here
DeviceKey(n) == <<"device", ":">> \o toString(n)

\* `plan:${year}:${week}` for string year and week
PlanKey(year, week) == <<"plan", ":">> \o year \o <<":">> \o week

\* `check:${year}:${week}:${deviceId}` for string year and week
CheckKey(year, week, deviceId) ==
    <<"check", ":">> \o year \o <<":">> \o week \o <<":">> \o deviceId

\* ------------------------------------------------------------ input sets
DeviceIds == {DeviceKey(n) : n \in 1..MaxDevices}
Users == {"E1", "E2"}
\* a JSON body without a comment field
NoComment == "undefined"
\* the bodies of PUT /checks/:checkId/complete
CompletionBodies == {[completedBy |-> "E1", comment |-> NoComment],
                     [completedBy |-> "E2", comment |-> "fixed"]}
Freqs == {1, 2}
\* an identification number outside sampleDeviceIds
IdentNumbers == {"EGA-77"}
sampleDeviceIds == {"HP-001", "CBS-002", "CNC-003", "COMP-004", "WS-005"}
\* the weeks the planner is used for: week 52 of 2024 and week 2 of 2025
PlanSlots == {[year |-> toString(2024), week |-> toString(52)],
              [year |-> toString(2025), week |-> toString(2)]}
\* the device selections of the planner: the first n devices
DeviceIdLists == {[i \in 1..n |-> DeviceKey(i)] : n \in 1..MaxDevices}

VARIABLES
    store,              \* the kv table: key -> value
    now,                \* the clock, in days
    resp,               \* the last request served and its response
    devCount,           \* device ids handed out so far
    steps,              \* steps taken so far
    PREVENT_AUTO_SEED,  \* the environment flag of kv_store.ts
    replan,             \* history: how the last plan request repeats the one before
    calls               \* the completion requests in flight, by call number

vars == <<store, now, resp, devCount, steps, PREVENT_AUTO_SEED, replan, calls>>

\* the history value of a request that repeats no plan request
NoReplan == [kind |-> "no", otherBy |-> FALSE]

\* no request in flight: every handler runs from start to end in one step
NoCalls == <<>>

\* ------------------------------------------------------------- kv_store.ts
Has(s, key) == key \in DOMAIN s

\* sampleEmployeePattern /^EMP0\d+$/i on an employee id "EMP" digit digit ...
sampleEmployeePattern(emp) ==
    /\ Len(emp) >= 3
    /\ emp[1] \in {"EMP", "emp"}
    /\ emp[2] = "0"
    /\ \A i \in 3..Len(emp) : emp[i] \in {DigitChars[d] : d \in 1..10}

\* the PREVENT_AUTO_SEED guard of set, which skips any device under the flag
SeedGuard_AnyDevice(key, value) ==
    /\ PREVENT_AUTO_SEED
    /\ \/ /\ StartsWith(key, <<"user", ":">>)
          /\ LET emp == IF "employeeId" \in DOMAIN value THEN value.employeeId
                        ELSE SubSeq(key, 3, Len(key))
             IN  sampleEmployeePattern(emp)
       \/ StartsWith(key, <<"device", ":">>)

\* the PREVENT_AUTO_SEED guard of set: sample users and sample devices are
\* silently skipped
SeedGuard(key, value) ==
    /\ PREVENT_AUTO_SEED
    /\ \/ /\ StartsWith(key, <<"user", ":">>)
          /\ LET emp == IF "employeeId" \in DOMAIN value THEN value.employeeId
                        ELSE SubSeq(key, 3, Len(key))
             IN  sampleEmployeePattern(emp)
       \/ /\ StartsWith(key, <<"device", ":">>)
          /\ "identificationNumber" \in DOMAIN value
          /\ value.identificationNumber \in sampleDeviceIds

\* set: upsert of the whole value
kvSet_KeepExisting(s, key, value) ==
    IF SeedGuard(key, value) \/ key \in DOMAIN s THEN s
    ELSE [k \in DOMAIN s \cup {key} |-> IF k = key THEN value ELSE s[k]]

kvSet(s, key, value) ==
    IF SeedGuard(key, value) THEN s
    ELSE [k \in DOMAIN s \cup {key} |-> IF k = key THEN value ELSE s[k]]

\* del: no error when the key is absent
kvDel(s, key) == [k \in DOMAIN s \ {key} |-> s[k]]

\* get: data?.value, undefined when no row has the key
kvGet(s, key) == IF Has(s, key) THEN s[key] ELSE "undefined"

RECURSIVE Like(_, _)
\* SQL: key LIKE pattern, where % matches any run of characters and _ any
\* single character
Like(key, pattern) ==
    IF pattern = <<>> THEN key = <<>>
    ELSE IF Head(pattern) = "%"
    THEN \/ Like(key, Tail(pattern))
         \/ key # <<>> /\ Like(Tail(key), pattern)
    ELSE /\ key # <<>>
         /\ Head(pattern) \in {"_", Head(key)}
         /\ Like(Tail(key), Tail(pattern))

\* getByPrefixWithKeys: the rows whose key is LIKE prefix + "%"
getByPrefixWithKeys(s, prefix) ==
    {[key |-> k, value |-> s[k]] :
        k \in {x \in DOMAIN s : Like(x, prefix \o <<"%">>)}}

\* getByPrefix: the values of those rows
getByPrefix(s, prefix) == {row.value : row \in getByPrefixWithKeys(s, prefix)}

\* { ...base, ...updates }
Spread(base, updates) ==
    [f \in DOMAIN base \cup DOMAIN updates |->
        IF f \in DOMAIN updates THEN updates[f] ELSE base[f]]

EmptyStore == [k \in {} |-> {}]

\* ------------------------------------------------------------ POST /devices
NewDevice(deviceId, ident, freq, t) ==
    [id |-> deviceId, identificationNumber |-> ident, plannedFrequency |-> freq,
     createdAt |-> t, status |-> "active"]

CreateDevice(ident, freq) ==
    /\ steps < MaxSteps
    /\ devCount < MaxDevices
    /\ LET deviceId == DeviceKey(devCount + 1)
           device   == NewDevice(deviceId, ident, freq, now)
       IN  /\ store' = kvSet(store, deviceId, device)
           /\ resp' = [op |-> "createDevice", status |-> 200, device |-> device]
    /\ devCount' = devCount + 1
    /\ steps' = steps + 1
    /\ replan' = NoReplan
    /\ UNCHANGED <<now, PREVENT_AUTO_SEED, calls>>

\* --------------------------------------------------- DELETE /devices/:deviceId
RECURSIVE DelAll(_, _)
\* for (const check of deviceChecks) await kv.del(check.id)
DelAll(s, checks) ==
    IF checks = {} THEN s
    ELSE LET c == CHOOSE x \in checks : TRUE
         IN  DelAll(kvDel(s, c.id), checks \ {c})

DeleteDeviceStore_DeviceOnly(s, deviceId) == kvDel(s, deviceId)

DeleteDeviceStore(s, deviceId) ==
    LET allChecks    == getByPrefix(s, <<"check", ":">>)
        deviceChecks == {c \in allChecks : c.deviceId = deviceId}
    IN  kvDel(DelAll(s, deviceChecks), deviceId)

DeleteDevice(deviceId) ==
    /\ steps < MaxSteps
    /\ IF ~Has(store, deviceId)
       THEN /\ store' = store
            /\ resp' = [op |-> "deleteDevice", status |-> 404, deviceId |-> deviceId]
       ELSE /\ store' = DeleteDeviceStore(store, deviceId)
            /\ resp' = [op |-> "deleteDevice", status |-> 200, deviceId |-> deviceId]
    /\ steps' = steps + 1
    /\ replan' = NoReplan
    /\ UNCHANGED <<now, devCount, PREVENT_AUTO_SEED, calls>>

\* -------------------------------------------------------- POST /weekly-plans
NewPlan(year, week, deviceIds, assignedBy, t) ==
    [id |-> PlanKey(year, week), week |-> week, year |-> year,
     deviceIds |-> deviceIds, assignedBy |-> assignedBy,
     createdAt |-> t, status |-> "planned"]

PlannedCheck_KeyedByAssigner(year, week, deviceId, assignedBy, t) ==
    [id |-> CheckKey(year, week, deviceId) \o <<":", assignedBy>>,
     deviceId |-> deviceId,
     week |-> week, year |-> year, status |-> "pending",
     assignedAt |-> t, assignedBy |-> assignedBy]

PlannedCheck(year, week, deviceId, assignedBy, t) ==
    [id |-> CheckKey(year, week, deviceId), deviceId |-> deviceId,
     week |-> week, year |-> year, status |-> "pending",
     assignedAt |-> t, assignedBy |-> assignedBy]

RECURSIVE PlanChecks_SkipsLast(_, _, _, _, _, _)
PlanChecks_SkipsLast(s, year, week, deviceIds, assignedBy, t) ==
    IF Len(deviceIds) <= 1 THEN s
    ELSE LET check == PlannedCheck(year, week, Head(deviceIds), assignedBy, t)
         IN  PlanChecks_SkipsLast(kvSet(s, check.id, check), year, week,
                                  Tail(deviceIds), assignedBy, t)

RECURSIVE PlanChecks(_, _, _, _, _, _)
\* for (const deviceId of deviceIds) await kv.set(checkId, check)
PlanChecks(s, year, week, deviceIds, assignedBy, t) ==
    IF deviceIds = <<>> THEN s
    ELSE LET check == PlannedCheck(year, week, Head(deviceIds), assignedBy, t)
         IN  PlanChecks(kvSet(s, check.id, check), year, week,
                        Tail(deviceIds), assignedBy, t)

CreateWeeklyPlanStore_ClearsWeek(s, year, week, deviceIds, assignedBy, t) ==
    LET plan    == NewPlan(year, week, deviceIds, assignedBy, t)
        cleared == [k \in {x \in DOMAIN s :
                              ~StartsWith(x, CheckKey(year, week, <<>>))} |-> s[k]]
    IN  PlanChecks(kvSet(cleared, plan.id, plan), year, week, deviceIds, assignedBy, t)

CreateWeeklyPlanStore(s, year, week, deviceIds, assignedBy, t) ==
    LET plan == NewPlan(year, week, deviceIds, assignedBy, t)
    IN  PlanChecks(kvSet(s, plan.id, plan), year, week, deviceIds, assignedBy, t)

\* how this plan request repeats the previous request: kind "same" for the
\* same week and device list, "overlap" for the same week and a common device
Repeats(last, year, week, deviceIds, assignedBy) ==
    IF last.op = "plan" /\ last.status = 200 /\ last.year = year /\ last.week = week
    THEN [kind |-> IF last.deviceIds = deviceIds THEN "same"
                   ELSE IF \E i \in DOMAIN deviceIds, j \in DOMAIN last.deviceIds :
                              deviceIds[i] = last.deviceIds[j]
                        THEN "overlap" ELSE "week",
          otherBy |-> last.assignedBy # assignedBy]
    ELSE NoReplan

CreateWeeklyPlan(year, week, deviceIds, assignedBy) ==
    /\ steps < MaxSteps
    /\ store' = CreateWeeklyPlanStore(store, year, week, deviceIds, assignedBy, now)
    /\ resp' = [op |-> "plan", status |-> 200, year |-> year, week |-> week,
                deviceIds |-> deviceIds, assignedBy |-> assignedBy,
                plan |-> NewPlan(year, week, deviceIds, assignedBy, now)]
    /\ steps' = steps + 1
    /\ replan' = Repeats(resp, year, week, deviceIds, assignedBy)
    /\ UNCHANGED <<now, devCount, PREVENT_AUTO_SEED, calls>>

\* ------------------------------------------------ PUT /checks/:checkId/complete
\* comment || ''
OrEmpty(comment) == IF comment \in {NoComment, ""} THEN "" ELSE comment

\* { ...check, status: 'completed', completedBy, completedAt, comment }
UpdatedCheck(check, completedBy, completedAt, comment) ==
    Spread(check, [status |-> "completed", completedBy |-> completedBy,
                   completedAt |-> completedAt, comment |-> OrEmpty(comment)])

\* { ...device, lastCheckedAt, lastCheckedBy }
UpdatedDevice(device, completedBy, completedAt) ==
    Spread(device, [lastCheckedAt |-> completedAt, lastCheckedBy |-> completedBy])

\* nextCheckDate.setDate(currentDate.getDate() + plannedFrequency * 7)
NextCheckDate(currentDate, plannedFrequency) == currentDate + plannedFrequency * 7

\* nextCheckDate.getFullYear()
NextYear(nextCheckDate) == getFullYear(nextCheckDate)

\* getWeekNumber(nextCheckDate)
NextWeek(nextCheckDate) == getWeekNumber(nextCheckDate)

\* `check:${nextYear}:${nextWeek}:${check.deviceId}`
NextCheckId_WeekBeforeYear(nextYear, nextWeek, deviceId) ==
    CheckKey(toString(nextWeek), toString(nextYear), deviceId)

NextCheckId(nextYear, nextWeek, deviceId) ==
    CheckKey(toString(nextYear), toString(nextWeek), deviceId)

NextCheck(nextYear, nextWeek, deviceId, completedAt) ==
    [id |-> NextCheckId(nextYear, nextWeek, deviceId), deviceId |-> deviceId,
     week |-> toString(nextWeek), year |-> toString(nextYear),
     status |-> "pending", assignedAt |-> completedAt, assignedBy |-> "system"]

\* the three writes of a completion, in the order of the handler
CompleteCheckStore(s, checkId, completedBy, comment, t) ==
    LET check        == s[checkId]
        device       == s[check.deviceId]
        s1           == kvSet(s, checkId, UpdatedCheck(check, completedBy, t, comment))
        s2           == kvSet(s1, check.deviceId, UpdatedDevice(device, completedBy, t))
        nextDate     == NextCheckDate(t, device.plannedFrequency)
        nextCheck    == NextCheck(NextYear(nextDate), NextWeek(nextDate), check.deviceId, t)
    IN  kvSet(s2, nextCheck.id, nextCheck)

\* if (!check) return 404
CheckNotFound(s, checkId) == ~Has(s, checkId)

\* if (!device) return 404
DeviceNotFound(s, checkId) == ~Has(s, s[checkId].deviceId)

\* the store a completion request leaves: untouched on either 404
CompleteCheckEffect_WriteBeforeLookup(s, checkId, completedBy, comment, t) ==
    IF CheckNotFound(s, checkId) THEN s
    ELSE IF DeviceNotFound(s, checkId)
         THEN kvSet(s, checkId, UpdatedCheck(s[checkId], completedBy, t, comment))
         ELSE CompleteCheckStore(s, checkId, completedBy, comment, t)

CompleteCheckEffect(s, checkId, completedBy, comment, t) ==
    IF CheckNotFound(s, checkId) THEN s
    ELSE IF DeviceNotFound(s, checkId) THEN s
         ELSE CompleteCheckStore(s, checkId, completedBy, comment, t)

\* the JSON answer of a completion request, with the request it answers
CompleteCheckResponse(s, checkId, completedBy, comment, t) ==
    LET req == [op |-> "complete", checkId |-> checkId, completedBy |-> completedBy,
                comment |-> comment, at |-> t]
    IN  IF CheckNotFound(s, checkId)
        THEN Spread(req, [status |-> 404, error |-> "Check not found"])
        ELSE IF DeviceNotFound(s, checkId)
        THEN Spread(req, [status |-> 404, error |-> "Device not found"])
        ELSE LET check    == s[checkId]
                 device   == s[check.deviceId]
                 nextDate == NextCheckDate(t, device.plannedFrequency)
                 nextYear == NextYear(nextDate)
                 nextWeek == NextWeek(nextDate)
             IN  Spread(req,
                    [status |-> 200,
                     check |-> UpdatedCheck(check, completedBy, t, comment),
                     frequency |-> device.plannedFrequency,
                     nextCheckScheduled |->
                        [checkId |-> NextCheckId(nextYear, nextWeek, check.deviceId),
                         week |-> nextWeek, year |-> nextYear,
                         scheduledFor |-> nextDate]])

CompleteCheck(checkId, completedBy, comment) ==
    /\ steps < MaxSteps
    /\ store' = CompleteCheckEffect(store, checkId, completedBy, comment, now)
    /\ resp' = CompleteCheckResponse(store, checkId, completedBy, comment, now)
    /\ steps' = steps + 1
    /\ replan' = NoReplan
    /\ UNCHANGED <<now, devCount, PREVENT_AUTO_SEED, calls>>

\* --------------------------------------------------------- GET /delayed-checks
IsDelayed(check, currentYear, currentWeek) ==
    /\ check.status = "pending"
    /\ LET checkYear == parseInt(check.year)
           checkWeek == parseInt(check.week)
       IN  \/ checkYear < currentYear
           \/ (checkYear = currentYear /\ checkWeek < currentWeek)

DelayedChecks(s, currentDate) ==
    LET allChecks   == getByPrefix(s, <<"check", ":">>)
        currentYear == getFullYear(currentDate)
        currentWeek == getWeekNumber(currentDate)
    IN  {check \in allChecks : IsDelayed(check, currentYear, currentWeek)}

GetDelayedChecks ==
    /\ resp' = [op |-> "delayed", status |-> 200, at |-> now,
                checks |-> DelayedChecks(store, now)]
    /\ replan' = NoReplan
    /\ UNCHANGED <<store, now, devCount, steps, PREVENT_AUTO_SEED, calls>>

\* ----------------------------------------------------------------- the clock
Tick ==
    /\ steps < MaxSteps
    /\ now' = now + 7
    /\ steps' = steps + 1
    /\ UNCHANGED <<store, resp, devCount, PREVENT_AUTO_SEED, replan, calls>>

\* ------------------------------------------------------------- specification
\* the check ids a client may send: those stored and those of plannable weeks
CheckIdInputs ==
    {k \in DOMAIN store : StartsWith(k, <<"check", ":">>)} \cup
    {CheckKey(p.year, p.week, DeviceKey(1)) : p \in PlanSlots}

Init ==
    /\ store = EmptyStore
    /\ now = FirstDay
    /\ resp = [op |-> "none", status |-> 0]
    /\ devCount = 0
    /\ steps = 0
    /\ PREVENT_AUTO_SEED = FALSE
    /\ replan = NoReplan
    /\ calls = NoCalls

Next ==
    \/ \E ident \in IdentNumbers, freq \in Freqs : CreateDevice(ident, freq)
    \/ \E deviceId \in DeviceIds : DeleteDevice(deviceId)
    \/ \E slot \in PlanSlots, deviceIds \in DeviceIdLists, assignedBy \in Users :
          CreateWeeklyPlan(slot.year, slot.week, deviceIds, assignedBy)
    \/ \E checkId \in CheckIdInputs, body \in CompletionBodies :
          CompleteCheck(checkId, body.completedBy, body.comment)
    \/ GetDelayedChecks
    \/ Tick

Spec == Init /\ [][Next]_vars

TypeOK ==
    /\ now \in FirstDay..(FirstDay + 7 * MaxSteps)
    /\ steps \in 0..MaxSteps
    /\ devCount \in 0..MaxDevices

\* --------------------------------------- DelayedDevices.tsx: the overdue screen
getDaysOverdue(check, currentDate) ==
    LET checkYear    == parseInt(check.year)
        checkWeek    == parseInt(check.week)
        currentYear  == getFullYear(currentDate)
        currentWeek  == getWeekNumberUI(currentDate)
        weeksOverdue == (currentYear - checkYear) * 52 + (currentWeek - checkWeek)
    IN  weeksOverdue * 7

getSeverityBadge_Below7(daysOverdue) ==
    IF daysOverdue < 7 THEN "Recently Overdue"
    ELSE IF daysOverdue <= 14 THEN "Moderately Overdue"
    ELSE "Critically Overdue"

getSeverityBadge(daysOverdue) ==
    IF daysOverdue <= 7 THEN "Recently Overdue"
    ELSE IF daysOverdue <= 14 THEN "Moderately Overdue"
    ELSE "Critically Overdue"

\* the category groupedChecks files a check under
Category(daysOverdue) ==
    IF daysOverdue > 14 THEN "critical"
    ELSE IF daysOverdue > 7 THEN "moderate"
    ELSE "recent"

\* groupedChecks: category -> the checks of it, each with its daysOverdue
groupedChecks(delayedChecks, currentDate) ==
    LET cats == {Category(getDaysOverdue(c, currentDate)) : c \in delayedChecks}
    IN  [cat \in cats |->
            {Spread(c, [daysOverdue |-> getDaysOverdue(c, currentDate)]) :
                c \in {x \in delayedChecks :
                          Category(getDaysOverdue(x, currentDate)) = cat}}]

\* the delayed-devices screen: fetch the delayed checks, group and badge them
ViewDelayedDevices ==
    /\ LET delayedChecks == DelayedChecks(store, now)
           grouped       == groupedChecks(delayedChecks, now)
       IN  resp' = [op |-> "screen", status |-> 200, at |-> now,
                    grouped |-> grouped,
                    cards |-> UNION {{[check |-> c, category |-> cat,
                                       badge |-> getSeverityBadge(c.daysOverdue)] :
                                         c \in grouped[cat]} : cat \in DOMAIN grouped}]
    /\ replan' = NoReplan
    /\ UNCHANGED <<store, now, devCount, steps, PREVENT_AUTO_SEED, calls>>

\* number of days after FirstDay at which the screen is opened
MaxScreenDays == 35

\* the weeks of the checks shown on the screen
ScreenSlots == {[year |-> toString(2024), week |-> toString(51)],
                [year |-> toString(2024), week |-> toString(52)],
                [year |-> toString(2025), week |-> toString(1)],
                [year |-> toString(2025), week |-> toString(2)]}

\* the screen opened on any day over a store that holds one planned week
ScreenInit ==
    /\ PREVENT_AUTO_SEED = FALSE
    /\ \E slot \in ScreenSlots, deviceIds \in DeviceIdLists :
          store = CreateWeeklyPlanStore(EmptyStore, slot.year, slot.week,
                                        deviceIds, "E1", FirstDay)
    /\ now \in FirstDay..(FirstDay + MaxScreenDays)
    /\ resp = [op |-> "none", status |-> 0]
    /\ devCount = 0
    /\ steps = 0
    /\ replan = NoReplan
    /\ calls = NoCalls

ScreenNext == ViewDelayedDevices \/ GetDelayedChecks

ScreenSpec == ScreenInit /\ [][ScreenNext]_vars

\* ------------------------------ the screen over a week planned on any Monday
\* number of weeks after FirstDay in which the planner is used
MaxPlanWeeks == 110

\* the planner plans its current week on a day of one of the weeks, and the
\* delayed checks are looked at some days later
OverdueInit ==
    /\ PREVENT_AUTO_SEED = FALSE
    /\ \E i \in 0..MaxPlanWeeks, late \in 0..MaxScreenDays :
          LET planned == FirstDay + 7 * i
          IN  /\ store = CreateWeeklyPlanStore(EmptyStore,
                             toString(getFullYear(planned)),
                             toString(getWeekNumberUI(planned)),
                             <<DeviceKey(1)>>, "E1", planned)
              /\ now = planned + late
    /\ resp = [op |-> "none", status |-> 0]
    /\ devCount = 0
    /\ steps = 0
    /\ replan = NoReplan
    /\ calls = NoCalls

OverdueSpec == OverdueInit /\ [][ScreenNext]_vars

\* ------------------------------------------ the week arithmetic on any date
\* the dates range from 2 * CalendarDays before FirstDay to CalendarDays after
CalendarDays == 1000

\* currentYear / currentWeek of GET /delayed-checks
ServerWeekOfNow ==
    /\ resp' = [op |-> "serverWeek", status |-> 200, at |-> now,
                year |-> getFullYear(now), week |-> getWeekNumber(now)]
    /\ UNCHANGED <<store, now, devCount, steps, PREVENT_AUTO_SEED, replan, calls>>

\* nextYear / nextWeek of a completion at `now` of a device of the frequency
SuccessorWeekOfNow(plannedFrequency) ==
    /\ LET nextCheckDate == NextCheckDate(now, plannedFrequency)
       IN  resp' = [op |-> "successorWeek", status |-> 200, at |-> now,
                    frequency |-> plannedFrequency,
                    year |-> NextYear(nextCheckDate),
                    week |-> NextWeek(nextCheckDate)]
    /\ UNCHANGED <<store, now, devCount, steps, PREVENT_AUTO_SEED, replan, calls>>

\* selectedYear / selectedWeek of the weekly planner for the selected date
PlannerWeekOfDate ==
    /\ resp' = [op |-> "plannerWeek", status |-> 200, at |-> now,
                year |-> toString(getFullYear(now)),
                week |-> toString(getWeekNumberUI(now))]
    /\ UNCHANGED <<store, now, devCount, steps, PREVENT_AUTO_SEED, replan, calls>>

WeekInit ==
    /\ store = EmptyStore
    /\ now \in (FirstDay - 2 * CalendarDays)..(FirstDay + CalendarDays)
    /\ resp = [op |-> "none", status |-> 0]
    /\ devCount = 0
    /\ steps = 0
    /\ PREVENT_AUTO_SEED = FALSE
    /\ replan = NoReplan
    /\ calls = NoCalls

WeekNext ==
    \/ ServerWeekOfNow
    \/ \E freq \in Freqs : SuccessorWeekOfNow(freq)
    \/ PlannerWeekOfDate

WeekSpec == WeekInit /\ [][WeekNext]_vars

\* ------------------- two completion requests of one check, await by await
CallIds == {1, 2}

\* a request received by the handler: nothing read yet
NewCall(checkId, body) ==
    [pc |-> "getCheck", checkId |-> checkId, completedBy |-> body.completedBy,
     comment |-> body.comment, status |-> 0, wroteAt |-> 0]

\* const check = await kv.get(checkId); if (!check) return 404
CallGetCheck(p) ==
    /\ calls[p].pc = "getCheck"
    /\ calls' = [calls EXCEPT ![p] =
          IF CheckNotFound(store, calls[p].checkId)
          THEN Spread(@, [pc |-> "done", status |-> 404])
          ELSE Spread(@, [pc |-> "getDevice", check |-> store[calls[p].checkId]])]
    /\ steps' = steps + 1
    /\ UNCHANGED <<store, now, resp, devCount, PREVENT_AUTO_SEED, replan>>

\* const device = await kv.get(check.deviceId); if (!device) return 404;
\* const completedAt = new Date().toISOString()
CallGetDevice(p) ==
    /\ calls[p].pc = "getDevice"
    /\ calls' = [calls EXCEPT ![p] =
          IF ~Has(store, calls[p].check.deviceId)
          THEN Spread(@, [pc |-> "done", status |-> 404])
          ELSE Spread(@, [pc |-> "setCheck", completedAt |-> now,
                          device |-> store[calls[p].check.deviceId]])]
    /\ steps' = steps + 1
    /\ UNCHANGED <<store, now, resp, devCount, PREVENT_AUTO_SEED, replan>>

\* await kv.set(checkId, updatedCheck)
CallSetCheck(p) ==
    /\ calls[p].pc = "setCheck"
    /\ LET c == calls[p]
       IN  store' = kvSet(store, c.checkId,
                          UpdatedCheck(c.check, c.completedBy, c.completedAt, c.comment))
    /\ calls' = [calls EXCEPT ![p] =
                    Spread(@, [pc |-> "setDevice", wroteAt |-> steps + 1])]
    /\ steps' = steps + 1
    /\ UNCHANGED <<now, resp, devCount, PREVENT_AUTO_SEED, replan>>

\* await kv.set(check.deviceId, updatedDevice)
CallSetDevice(p) ==
    /\ calls[p].pc = "setDevice"
    /\ LET c == calls[p]
       IN  store' = kvSet(store, c.check.deviceId,
                          UpdatedDevice(c.device, c.completedBy, c.completedAt))
    /\ calls' = [calls EXCEPT ![p] = Spread(@, [pc |-> "setNext"])]
    /\ steps' = steps + 1
    /\ UNCHANGED <<now, resp, devCount, PREVENT_AUTO_SEED, replan>>

\* await kv.set(nextCheckId, nextCheck); return c.json(...)
CallSetNext(p) ==
    /\ calls[p].pc = "setNext"
    /\ LET c         == calls[p]
           nextDate  == NextCheckDate(now, c.device.plannedFrequency)
           nextCheck == NextCheck(NextYear(nextDate), NextWeek(nextDate),
                                  c.check.deviceId, c.completedAt)
       IN  store' = kvSet(store, nextCheck.id, nextCheck)
    /\ calls' = [calls EXCEPT ![p] = Spread(@, [pc |-> "done", status |-> 200])]
    /\ steps' = steps + 1
    /\ UNCHANGED <<now, resp, devCount, PREVENT_AUTO_SEED, replan>>

\* a device with one planned check, and two requests to complete that check
ConcInit ==
    /\ PREVENT_AUTO_SEED = FALSE
    /\ now = FirstDay
    /\ \E ident \in IdentNumbers, freq \in Freqs, slot \in PlanSlots,
          body1 \in CompletionBodies, body2 \in CompletionBodies :
          /\ store = CreateWeeklyPlanStore(
                        kvSet(EmptyStore, DeviceKey(1),
                              NewDevice(DeviceKey(1), ident, freq, now)),
                        slot.year, slot.week, <<DeviceKey(1)>>, "E1", now)
          /\ calls = [p \in CallIds |->
                        NewCall(CheckKey(slot.year, slot.week, DeviceKey(1)),
                                IF p = 1 THEN body1 ELSE body2)]
    /\ resp = [op |-> "none", status |-> 0]
    /\ devCount = 1
    /\ steps = 0
    /\ replan = NoReplan

ConcNext ==
    \E p \in CallIds :
        \/ CallGetCheck(p)
        \/ CallGetDevice(p)
        \/ CallSetCheck(p)
        \/ CallSetDevice(p)
        \/ CallSetNext(p)

ConcSpec == ConcInit /\ [][ConcNext]_vars

\* --------------- DELETE /devices/:deviceId while a check is being completed
\* a deletion request received by the handler: nothing read yet
NewDeletion(deviceId) ==
    [pc |-> "delGetDevice", deviceId |-> deviceId, status |-> 0, wroteAt |-> 0]

\* const device = await kv.get(deviceId); if (!device) return 404
DelGetDevice(p) ==
    /\ calls[p].pc = "delGetDevice"
    /\ calls' = [calls EXCEPT ![p] =
          IF ~Has(store, calls[p].deviceId)
          THEN Spread(@, [pc |-> "done", status |-> 404])
          ELSE Spread(@, [pc |-> "delScan"])]
    /\ steps' = steps + 1
    /\ UNCHANGED <<store, now, resp, devCount, PREVENT_AUTO_SEED, replan>>

\* const allChecks = await kv.getByPrefix('check:');
\* const deviceChecks = allChecks.filter(check => check.deviceId === deviceId)
DelScan(p) ==
    /\ calls[p].pc = "delScan"
    /\ LET allChecks    == getByPrefix(store, <<"check", ":">>)
           deviceChecks == {check \in allChecks : check.deviceId = calls[p].deviceId}
       IN  calls' = [calls EXCEPT ![p] =
              Spread(@, [pc |-> IF deviceChecks = {} THEN "delDevice" ELSE "delChecks",
                         deviceChecks |-> {check.id : check \in deviceChecks}])]
    /\ steps' = steps + 1
    /\ UNCHANGED <<store, now, resp, devCount, PREVENT_AUTO_SEED, replan>>

\* for (const check of deviceChecks) await kv.del(check.id): one iteration
DelCheck(p) ==
    /\ calls[p].pc = "delChecks"
    /\ \E id \in calls[p].deviceChecks :
          /\ store' = kvDel(store, id)
          /\ calls' = [calls EXCEPT ![p] =
                Spread(@, [pc |-> IF calls[p].deviceChecks = {id}
                                  THEN "delDevice" ELSE "delChecks",
                           deviceChecks |-> calls[p].deviceChecks \ {id}])]
    /\ steps' = steps + 1
    /\ UNCHANGED <<now, resp, devCount, PREVENT_AUTO_SEED, replan>>

\* await kv.del(deviceId); return c.json({ success: true, ... })
DelDevice(p) ==
    /\ calls[p].pc = "delDevice"
    /\ store' = kvDel(store, calls[p].deviceId)
    /\ calls' = [calls EXCEPT ![p] = Spread(@, [pc |-> "done", status |-> 200])]
    /\ steps' = steps + 1
    /\ UNCHANGED <<now, resp, devCount, PREVENT_AUTO_SEED, replan>>

\* a device with the checks of one or both plannable weeks, a request to
\* complete one of them (call 1) and a request to delete the device (call 2)
DelInit ==
    /\ PREVENT_AUTO_SEED = FALSE
    /\ now = FirstDay
    /\ \E ident \in IdentNumbers, freq \in Freqs, slot \in PlanSlots,
          both \in BOOLEAN, body \in CompletionBodies :
          LET s0 == CreateWeeklyPlanStore(
                        kvSet(EmptyStore, DeviceKey(1),
                              NewDevice(DeviceKey(1), ident, freq, now)),
                        slot.year, slot.week, <<DeviceKey(1)>>, "E1", now)
              other == CHOOSE x \in PlanSlots : x # slot
          IN  /\ store = IF both
                         THEN CreateWeeklyPlanStore(s0, other.year, other.week,
                                                    <<DeviceKey(1)>>, "E1", now)
                         ELSE s0
              /\ calls = [p \in CallIds |->
                            IF p = 1
                            THEN NewCall(CheckKey(slot.year, slot.week, DeviceKey(1)), body)
                            ELSE NewDeletion(DeviceKey(1))]
    /\ resp = [op |-> "none", status |-> 0]
    /\ devCount = 1
    /\ steps = 0
    /\ replan = NoReplan

DelNext ==
    \/ CallGetCheck(1)
    \/ CallGetDevice(1)
    \/ CallSetCheck(1)
    \/ CallSetDevice(1)
    \/ CallSetNext(1)
    \/ DelGetDevice(2)
    \/ DelScan(2)
    \/ DelCheck(2)
    \/ DelDevice(2)

DelSpec == DelInit /\ [][DelNext]_vars

\* ------------------------------------- the handlers over a failing table
\* number of requests served over the failing table
MaxFaultyRequests == 2

\* one call of kv_store.ts as the table client answers it: with an error the
\* operation throws (if (error) throw new Error(error.message))
StorageCall(op, key, error) == [op |-> op, key |-> key, error |-> error]

\* the outcome of a handler: the store it leaves, its status, its kv calls
Outcome(s, status, log) == [store |-> s, status |-> status, log |-> log]

RECURSIVE PlanChecksRun_Continues(_, _, _, _, _, _, _, _)
PlanChecksRun_Continues(s, year, week, deviceIds, assignedBy, t, failAt, log) ==
    IF deviceIds = <<>>
    THEN Outcome(s, IF \E i \in DOMAIN log : log[i].error THEN 500 ELSE 200, log)
    ELSE LET check == PlannedCheck(year, week, Head(deviceIds), assignedBy, t)
             call  == StorageCall("set", check.id, failAt = Len(log) + 1)
         IN  PlanChecksRun_Continues(
                 IF call.error THEN s ELSE kvSet(s, check.id, check),
                 year, week, Tail(deviceIds), assignedBy, t, failAt,
                 Append(log, call))

RECURSIVE PlanChecksRun(_, _, _, _, _, _, _, _)
\* for (const deviceId of deviceIds) await kv.set(checkId, check), inside try:
\* a throw leaves the loop for the catch, which answers 500
PlanChecksRun(s, year, week, deviceIds, assignedBy, t, failAt, log) ==
    IF deviceIds = <<>> THEN Outcome(s, 200, log)
    ELSE LET check == PlannedCheck(year, week, Head(deviceIds), assignedBy, t)
             call  == StorageCall("set", check.id, failAt = Len(log) + 1)
         IN  IF call.error THEN Outcome(s, 500, Append(log, call))
             ELSE PlanChecksRun(kvSet(s, check.id, check), year, week,
                                Tail(deviceIds), assignedBy, t, failAt,
                                Append(log, call))

\* POST /weekly-plans when its kv call number failAt reports an error
CreateWeeklyPlanRun(s, year, week, deviceIds, assignedBy, t, failAt) ==
    LET plan == NewPlan(year, week, deviceIds, assignedBy, t)
        call == StorageCall("set", plan.id, failAt = 1)
    IN  IF call.error THEN Outcome(s, 500, <<call>>)
        ELSE PlanChecksRun(kvSet(s, plan.id, plan), year, week, deviceIds,
                           assignedBy, t, failAt, <<call>>)

CreateWeeklyPlanFaulty(year, week, deviceIds, assignedBy, failAt) ==
    /\ steps < MaxFaultyRequests
    /\ LET out == CreateWeeklyPlanRun(store, year, week, deviceIds, assignedBy,
                                      now, failAt)
       IN  /\ store' = out.store
           /\ resp' = [op |-> "plan", status |-> out.status, year |-> year,
                       week |-> week, deviceIds |-> deviceIds,
                       assignedBy |-> assignedBy, failAt |-> failAt,
                       log |-> out.log]
    /\ steps' = steps + 1
    /\ replan' = NoReplan
    /\ UNCHANGED <<now, devCount, PREVENT_AUTO_SEED, calls>>

\* PUT /checks/:checkId/complete when its kv call number failAt reports an error
CompleteCheckRun_RollsBack(s, checkId, completedBy, comment, t, failAt) ==
    LET getCheck == StorageCall("get", checkId, failAt = 1)
    IN  IF getCheck.error THEN Outcome(s, 500, <<getCheck>>)
        ELSE IF CheckNotFound(s, checkId) THEN Outcome(s, 404, <<getCheck>>)
        ELSE
    LET check     == s[checkId]
        getDevice == StorageCall("get", check.deviceId, failAt = 2)
    IN  IF getDevice.error THEN Outcome(s, 500, <<getCheck, getDevice>>)
        ELSE IF DeviceNotFound(s, checkId)
        THEN Outcome(s, 404, <<getCheck, getDevice>>)
        ELSE
    LET device    == s[check.deviceId]
        setCheck  == StorageCall("set", checkId, failAt = 3)
        s1        == kvSet(s, checkId, UpdatedCheck(check, completedBy, t, comment))
        setDevice == StorageCall("set", check.deviceId, failAt = 4)
        s2        == kvSet(s1, check.deviceId, UpdatedDevice(device, completedBy, t))
        nextDate  == NextCheckDate(t, device.plannedFrequency)
        nextCheck == NextCheck(NextYear(nextDate), NextWeek(nextDate),
                               check.deviceId, t)
        setNext   == StorageCall("set", nextCheck.id, failAt = 5)
    IN  IF setCheck.error
        THEN Outcome(s, 500, <<getCheck, getDevice, setCheck>>)
        ELSE IF setDevice.error
        THEN Outcome(s, 500, <<getCheck, getDevice, setCheck, setDevice>>)
        ELSE IF setNext.error
        THEN Outcome(s, 500, <<getCheck, getDevice, setCheck, setDevice, setNext>>)
        ELSE Outcome(kvSet(s2, nextCheck.id, nextCheck), 200,
                     <<getCheck, getDevice, setCheck, setDevice, setNext>>)

CompleteCheckRun(s, checkId, completedBy, comment, t, failAt) ==
    LET getCheck == StorageCall("get", checkId, failAt = 1)
    IN  IF getCheck.error THEN Outcome(s, 500, <<getCheck>>)
        ELSE IF CheckNotFound(s, checkId) THEN Outcome(s, 404, <<getCheck>>)
        ELSE
    LET check     == s[checkId]
        getDevice == StorageCall("get", check.deviceId, failAt = 2)
    IN  IF getDevice.error THEN Outcome(s, 500, <<getCheck, getDevice>>)
        ELSE IF DeviceNotFound(s, checkId)
        THEN Outcome(s, 404, <<getCheck, getDevice>>)
        ELSE
    LET device    == s[check.deviceId]
        setCheck  == StorageCall("set", checkId, failAt = 3)
        s1        == kvSet(s, checkId, UpdatedCheck(check, completedBy, t, comment))
        setDevice == StorageCall("set", check.deviceId, failAt = 4)
        s2        == kvSet(s1, check.deviceId, UpdatedDevice(device, completedBy, t))
        nextDate  == NextCheckDate(t, device.plannedFrequency)
        nextCheck == NextCheck(NextYear(nextDate), NextWeek(nextDate),
                               check.deviceId, t)
        setNext   == StorageCall("set", nextCheck.id, failAt = 5)
    IN  IF setCheck.error
        THEN Outcome(s, 500, <<getCheck, getDevice, setCheck>>)
        ELSE IF setDevice.error
        THEN Outcome(s1, 500, <<getCheck, getDevice, setCheck, setDevice>>)
        ELSE IF setNext.error
        THEN Outcome(s2, 500, <<getCheck, getDevice, setCheck, setDevice, setNext>>)
        ELSE Outcome(kvSet(s2, nextCheck.id, nextCheck), 200,
                     <<getCheck, getDevice, setCheck, setDevice, setNext>>)

CompleteCheckFaulty(checkId, completedBy, comment, failAt) ==
    /\ steps < MaxFaultyRequests
    /\ LET out == CompleteCheckRun(store, checkId, completedBy, comment, now, failAt)
       IN  /\ store' = out.store
           /\ resp' = [op |-> "complete", status |-> out.status,
                       checkId |-> checkId, completedBy |-> completedBy,
                       comment |-> comment, at |-> now, failAt |-> failAt,
                       log |-> out.log]
    /\ steps' = steps + 1
    /\ replan' = NoReplan
    /\ UNCHANGED <<now, devCount, PREVENT_AUTO_SEED, calls>>

\* the kv call of a request that reports an error: 0 for none
FailPoints(n) == 0..n

\* one stored device, no plan yet
FaultInit ==
    /\ PREVENT_AUTO_SEED = FALSE
    /\ now = FirstDay
    /\ \E ident \in IdentNumbers, freq \in Freqs :
          store = kvSet(EmptyStore, DeviceKey(1),
                        NewDevice(DeviceKey(1), ident, freq, now))
    /\ resp = [op |-> "none", status |-> 0]
    /\ devCount = 1
    /\ steps = 0
    /\ replan = NoReplan
    /\ calls = NoCalls

FaultNext ==
    \/ \E slot \in PlanSlots, deviceIds \in DeviceIdLists,
          failAt \in FailPoints(1 + MaxDevices) :
          CreateWeeklyPlanFaulty(slot.year, slot.week, deviceIds, "E1", failAt)
    \/ \E checkId \in CheckIdInputs, body \in CompletionBodies,
          failAt \in FailPoints(5) :
          CompleteCheckFaulty(checkId, body.completedBy, body.comment, failAt)

FaultSpec == FaultInit /\ [][FaultNext]_vars

\* --------------------------- requests with any JSON body, sent to the server
\* number of requests served
MaxRawRequests == 3

\* a field absent from the JSON body
undefined == "undefined"

\* plannedFrequency of the body of POST /devices: zero and one week
RawFreqs == {0, 1}

\* week and year of the body of POST /weekly-plans: also weeks 0 and 54
RawSlots == PlanSlots \cup {[year |-> toString(2025), week |-> toString(0)],
                             [year |-> toString(2025), week |-> toString(54)]}

\* the body of a completion: also one without completedBy
RawBodies == CompletionBodies \cup {[completedBy |-> undefined, comment |-> NoComment]}

RawNext ==
    \/ \E ident \in IdentNumbers, freq \in RawFreqs :
          steps < MaxRawRequests /\ CreateDevice(ident, freq)
    \/ \E slot \in RawSlots, deviceIds \in DeviceIdLists, assignedBy \in Users :
          /\ steps < MaxRawRequests
          /\ CreateWeeklyPlan(slot.year, slot.week, deviceIds, assignedBy)
    \/ \E checkId \in CheckIdInputs, body \in RawBodies :
          /\ steps < MaxRawRequests
          /\ CompleteCheck(checkId, body.completedBy, body.comment)

RawSpec == Init /\ [][RawNext]_vars

\* ------------------------- requests over a store that holds other records
\* number of requests served
MaxFrameRequests == 2

\* the singleton record of the notification settings, under a key of its own
NotificationSettingsKey == <<"delayed-device-notifications">>
NotificationSettings == [selectedEmployees |-> {"E1"}]

\* the settings, two devices and the plan of week 52 of 2024 for both
FrameInit ==
    /\ PREVENT_AUTO_SEED = FALSE
    /\ now = FirstDay
    /\ \E ident \in IdentNumbers, freq \in Freqs :
          LET devices == [k \in {DeviceKey(1), DeviceKey(2)} |->
                             NewDevice(k, ident, freq, now)]
              s0      == kvSet(devices, NotificationSettingsKey, NotificationSettings)
          IN  store = CreateWeeklyPlanStore(s0, toString(2024), toString(52),
                                            <<DeviceKey(1), DeviceKey(2)>>, "E1", now)
    /\ resp = [op |-> "none", status |-> 0]
    /\ devCount = 2
    /\ steps = 0
    /\ replan = NoReplan
    /\ calls = NoCalls

FrameNext ==
    \/ \E slot \in PlanSlots, deviceIds \in DeviceIdLists, assignedBy \in Users :
          /\ steps < MaxFrameRequests
          /\ CreateWeeklyPlan(slot.year, slot.week, deviceIds, assignedBy)
    \/ \E checkId \in CheckIdInputs, body \in CompletionBodies :
          /\ steps < MaxFrameRequests
          /\ CompleteCheck(checkId, body.completedBy, body.comment)

FrameSpec == FrameInit /\ [][FrameNext]_vars

\* ------------------------------------------- kv_store.ts, call by call
\* an employee id that sampleEmployeePattern matches, and one it does not
SampleEmployee == <<"EMP", "0", "1">>
OtherEmployee == <<"EMP", "1", "7">>

KvDevice == DeviceKey(1)
KvUser == <<"user", ":">> \o SampleEmployee

\* the keys of the calls: a device, a user, a plan, and checks of week 1 and
\* week 10 of 2025 and of week 1 of 2024
KvKeys ==
    {KvDevice, KvUser, PlanKey(toString(2025), toString(1)),
     CheckKey(toString(2025), toString(1), KvDevice),
     CheckKey(toString(2025), toString(10), KvDevice),
     CheckKey(toString(2024), toString(1), KvDevice)}

\* the values written under a key
KvValues(key) ==
    IF key = KvDevice
    THEN {NewDevice(key, ident, 1, FirstDay) : ident \in IdentNumbers \cup {"HP-001"}}
    ELSE IF key = KvUser
    THEN {[employeeId |-> emp, role |-> "employee"] :
             emp \in {SampleEmployee, OtherEmployee}}
    ELSE IF StartsWith(key, <<"plan", ":">>)
    THEN {NewPlan(toString(2025), toString(1), <<KvDevice>>, by, FirstDay) : by \in Users}
    ELSE {[id |-> key, deviceId |-> KvDevice, week |-> SubSeq(key, 8, Len(key) - 4),
           year |-> SubSeq(key, 3, 6), status |-> "pending",
           assignedAt |-> FirstDay, assignedBy |-> "E1"]}

\* `check:${year}:${week}:` for the year and week of the request path
WeekPrefix(year, week) == <<"check", ":">> \o year \o <<":">> \o week \o <<":">>

\* the prefixes of the calls: those of the handlers and week prefixes built
\* from the path of GET /weekly-plans/:year/:week
KvPrefixes ==
    {<<"check", ":">>, <<"device", ":">>, <<"plan", ":">>,
     WeekPrefix(toString(2025), toString(1)),
     WeekPrefix(toString(2025), toString(10)),
     WeekPrefix(toString(2024), toString(1)),
     WeekPrefix(toString(2025), <<"_">>)}

KvSetCall(key, value) ==
    /\ store' = kvSet(store, key, value)
    /\ resp' = [op |-> "set", status |-> 200, key |-> key, value |-> value]
    /\ UNCHANGED <<now, devCount, steps, PREVENT_AUTO_SEED, replan, calls>>

KvGetCall(key) ==
    /\ resp' = [op |-> "get", status |-> 200, key |-> key, value |-> kvGet(store, key)]
    /\ UNCHANGED <<store, now, devCount, steps, PREVENT_AUTO_SEED, replan, calls>>

KvDelCall(key) ==
    /\ store' = kvDel(store, key)
    /\ resp' = [op |-> "del", status |-> 200, key |-> key]
    /\ UNCHANGED <<now, devCount, steps, PREVENT_AUTO_SEED, replan, calls>>

KvGetByPrefixCall(prefix) ==
    /\ resp' = [op |-> "getByPrefix", status |-> 200, prefix |-> prefix,
                values |-> getByPrefix(store, prefix)]
    /\ UNCHANGED <<store, now, devCount, steps, PREVENT_AUTO_SEED, replan, calls>>

KvGetByPrefixWithKeysCall(prefix) ==
    /\ resp' = [op |-> "getByPrefixWithKeys", status |-> 200, prefix |-> prefix,
                rows |-> getByPrefixWithKeys(store, prefix)]
    /\ UNCHANGED <<store, now, devCount, steps, PREVENT_AUTO_SEED, replan, calls>>

\* the key lists of mget and mset: two different keys, in either order
KvKeyLists ==
    LET keys == {KvDevice, KvUser, PlanKey(toString(2025), toString(1))}
    IN  {list \in [1..2 -> keys] : list[1] # list[2]}

\* mset: one upsert of the rows { key: keys[i], value: values[i] }
kvMset(s, keys, values) ==
    [k \in DOMAIN s \cup {keys[i] : i \in DOMAIN keys} |->
        IF \E i \in DOMAIN keys : keys[i] = k
        THEN values[CHOOSE i \in DOMAIN keys : keys[i] = k]
        ELSE s[k]]

\* the orders in which the table may return the rows of a set of keys
RowOrders(found) ==
    {order \in [1..Cardinality(found) -> found] :
        \A i, j \in 1..Cardinality(found) : order[i] = order[j] => i = j}

\* mget: select value where key in (keys), mapped to the values; the rows
\* come in the order of the table, whatever the order of keys
kvMget(s, keys) ==
    {[i \in DOMAIN order |-> s[order[i]]] :
        order \in RowOrders({keys[i] : i \in DOMAIN keys} \cap DOMAIN s)}

KvMsetCall(keys, values) ==
    /\ store' = kvMset(store, keys, values)
    /\ resp' = [op |-> "mset", status |-> 200, keys |-> keys, values |-> values]
    /\ UNCHANGED <<now, devCount, steps, PREVENT_AUTO_SEED, replan, calls>>

KvMgetCall(keys) ==
    /\ \E values \in kvMget(store, keys) :
          resp' = [op |-> "mget", status |-> 200, keys |-> keys, values |-> values]
    /\ UNCHANGED <<store, now, devCount, steps, PREVENT_AUTO_SEED, replan, calls>>

KvInit ==
    /\ store = EmptyStore
    /\ now = FirstDay
    /\ resp = [op |-> "none", status |-> 0]
    /\ devCount = 0
    /\ steps = 0
    /\ PREVENT_AUTO_SEED \in BOOLEAN
    /\ replan = NoReplan
    /\ calls = NoCalls

KvNext ==
    \/ \E key \in KvKeys : \E value \in KvValues(key) : KvSetCall(key, value)
    \/ \E key \in KvKeys : KvGetCall(key)
    \/ \E key \in KvKeys : KvDelCall(key)
    \/ \E prefix \in KvPrefixes : KvGetByPrefixCall(prefix)
    \/ \E prefix \in KvPrefixes : KvGetByPrefixWithKeysCall(prefix)
    \/ \E keys \in KvKeyLists :
          \E v1 \in KvValues(keys[1]), v2 \in KvValues(keys[2]) :
             KvMsetCall(keys, <<v1, v2>>)
    \/ \E keys \in KvKeyLists : KvMgetCall(keys)

KvSpec == KvInit /\ [][KvNext]_vars

\* ------------------------------------------------------- auxiliary notions
CheckPrefix == <<"check", ":">>

CheckKeys(s) == {k \in DOMAIN s : StartsWith(k, CheckPrefix)}

\* the step is a state-changing request of the named handler
Served(op) == steps' = steps + 1 /\ now' = now /\ resp'.op = op

\* ISO-8601 (year, week) of a day: year and ordinal of the week's Thursday
WeekOf(d) ==
    LET thursday == d + 3 - ((getDay(d) + 6) % 7)
        year     == getFullYear(thursday)
    IN  [year |-> year, week |-> 1 + ((thursday - YearStart(year)) \div 7)]

\* lexicographic order on (year, week)
Earlier(y1, w1, y2, w2) == y1 < y2 \/ (y1 = y2 /\ w1 < w2)

\* ---------------------------------------------------------------- claims
\* C1: every successful completion of a check of a device with frequency
\* f >= 1 leaves a pending check of the same device, assigned by "system",
\* keyed at weekOf(completion instant + 7 f days); the key depends on the
\* completion instant and f only.
C1_SuccessorAtWeekOf ==
    (resp.op = "complete" /\ resp.status = 200 /\ resp.frequency >= 1) =>
        LET w == WeekOf(resp.at + 7 * resp.frequency)
            k == CheckKey(toString(w.year), toString(w.week), resp.check.deviceId)
        IN  /\ resp.nextCheckScheduled.checkId = k
            /\ Has(store, k)
            /\ store[k].deviceId = resp.check.deviceId
            /\ store[k].status = "pending"
            /\ store[k].assignedBy = "system"

\* C2: a completion answers 404 when the check is absent and when the check
\* is stored but its device is not, and then the store is left as it was.
C2_NotFoundLeavesStore ==
    [][(/\ Served("complete")
        /\ \/ ~Has(store, resp'.checkId)
           \/ ~Has(store, store[resp'.checkId].deviceId))
       => (resp'.status = 404 /\ store' = store)]_vars

C2_Witness ==
    /\ resp.op = "complete"
    /\ resp.status = 404
    /\ Has(store, resp.checkId)
    /\ ~Has(store, store[resp.checkId].deviceId)
    /\ store[resp.checkId].status = "pending"

\* C3: a stored check that is completed is never pending afterwards.
C3_CompletedStaysCompleted ==
    [][\A k \in CheckKeys(store) :
         (store[k].status = "completed" /\ Has(store', k))
            => store'[k].status # "pending"]_vars

\* C4: after a successful completion the record under checkId is completed
\* and carries the given completedBy, the given comment (empty when none)
\* and the completion instant.
C4_CompletionStamped ==
    (resp.op = "complete" /\ resp.status = 200 /\ resp.frequency >= 1) =>
        /\ Has(store, resp.checkId)
        /\ store[resp.checkId].status = "completed"
        /\ store[resp.checkId].completedBy = resp.completedBy
        /\ store[resp.checkId].comment =
              (IF resp.comment = NoComment THEN "" ELSE resp.comment)
        /\ store[resp.checkId].completedAt = resp.at

\* C5: every stored check has its key as id, the key is built from the
\* check's own year, week and deviceId, and no two stored checks share a
\* (year, week, deviceId) triple.
C5_KeyIsIdentity ==
    /\ \A k \in CheckKeys(store) :
          /\ store[k].id = k
          /\ k = CheckKey(store[k].year, store[k].week, store[k].deviceId)
    /\ \A k1, k2 \in CheckKeys(store) :
          (/\ parseInt(store[k1].year) = parseInt(store[k2].year)
           /\ parseInt(store[k1].week) = parseInt(store[k2].week)
           /\ store[k1].deviceId = store[k2].deviceId) => k1 = k2

C5_Witness ==
    /\ resp.op = "complete"
    /\ resp.status = 200
    /\ \E k \in CheckKeys(store) : store[k].status = "completed"
    /\ \E k \in CheckKeys(store) : store[k].assignedBy = "system"
    /\ \E k \in CheckKeys(store) : store[k].assignedBy \in Users

\* the stored checks of a (year, week, deviceId) triple
ChecksAt(s, year, week, deviceId) ==
    {k \in CheckKeys(s) : /\ s[k].year = year
                          /\ s[k].week = week
                          /\ s[k].deviceId = deviceId}

\* the step serves a plan request for the week of the previous plan request
PlannedAgain ==
    /\ Served("plan")
    /\ resp.op = "plan"
    /\ resp.status = 200
    /\ resp.year = resp'.year
    /\ resp.week = resp'.week

\* C6: a second plan request with the same year, week and deviceIds succeeds,
\* leaves the key set of the first and one check per listed device.
C6_PlanIdempotent ==
    [][(PlannedAgain /\ resp.deviceIds = resp'.deviceIds) =>
          /\ resp'.status = 200
          /\ DOMAIN store' = DOMAIN store
          /\ \A i \in DOMAIN resp'.deviceIds :
                Cardinality(ChecksAt(store', resp'.year, resp'.week,
                                     resp'.deviceIds[i])) = 1]_vars

C6_Witness ==
    /\ resp.op = "plan"
    /\ resp.status = 200
    /\ replan.kind = "same"

\* C7: after a successful plan request every listed device has exactly one
\* check at that week, pending and assigned by the requester, and the plan
\* record holds the given deviceIds.
C7_PlanCreatesChecks ==
    (resp.op = "plan" /\ resp.status = 200) =>
        /\ \A i \in DOMAIN resp.deviceIds :
              LET k == CheckKey(resp.year, resp.week, resp.deviceIds[i])
              IN  /\ ChecksAt(store, resp.year, resp.week, resp.deviceIds[i]) = {k}
                  /\ store[k].status = "pending"
                  /\ store[k].assignedBy = resp.assignedBy
        /\ Has(store, PlanKey(resp.year, resp.week))
        /\ store[PlanKey(resp.year, resp.week)].deviceIds = resp.deviceIds

C7_Witness ==
    /\ resp.op = "plan"
    /\ resp.status = 200
    /\ Len(resp.deviceIds) = MaxDevices
    /\ \E k \in CheckKeys(store) : store[k].assignedBy = "system"

\* C8: when a plan request follows one for the same week, a device listed by
\* both has exactly one check at that week, assigned by the second requester.
C8_LastPlanWins ==
    [][PlannedAgain =>
          \A i \in DOMAIN resp'.deviceIds :
             (\E j \in DOMAIN resp.deviceIds : resp.deviceIds[j] = resp'.deviceIds[i]) =>
                LET k == CheckKey(resp'.year, resp'.week, resp'.deviceIds[i])
                IN  /\ ChecksAt(store', resp'.year, resp'.week, resp'.deviceIds[i]) = {k}
                    /\ store'[k].assignedBy = resp'.assignedBy]_vars

C8_Witness ==
    /\ resp.op = "plan"
    /\ resp.status = 200
    /\ replan.kind \in {"same", "overlap"}
    /\ replan.otherBy

\* C9: GET /delayed-checks returns exactly the stored checks that are pending
\* and whose (year, week) is strictly earlier than weekOf(now).
C9_DelayedExactlyEarlierPending ==
    (resp.op = "delayed" /\ resp.status = 200) =>
        resp.checks =
           {store[k] : k \in {x \in CheckKeys(store) :
               /\ store[x].status = "pending"
               /\ Earlier(parseInt(store[x].year), parseInt(store[x].week),
                          WeekOf(resp.at).year, WeekOf(resp.at).week)}}

\* C10: daysOverdue is ((nowYear - checkYear) * 52 + (nowWeek - checkWeek)) * 7;
\* up to 7 days is recently, up to 14 moderately, beyond that critically
\* overdue, so a check of week w seen in week w+1, w+2, w+3 of the same year
\* is 7 days recent, 14 days moderate, 21 days critical.
C10_SeverityByWeeks ==
    (resp.op = "screen") =>
        \A card \in resp.cards :
            LET days    == card.check.daysOverdue
                nowYear == getFullYear(resp.at)
                nowWeek == getWeekNumberUI(resp.at)
                year    == parseInt(card.check.year)
                week    == parseInt(card.check.week)
            IN  /\ days = ((nowYear - year) * 52 + (nowWeek - week)) * 7
                /\ (days <= 7) <=>
                      (card.category = "recent" /\ card.badge = "Recently Overdue")
                /\ (7 < days /\ days <= 14) <=>
                      (card.category = "moderate" /\ card.badge = "Moderately Overdue")
                /\ (days > 14) <=>
                      (card.category = "critical" /\ card.badge = "Critically Overdue")
                /\ \A n \in 1..3 :
                      (nowYear = year /\ nowWeek = week + n) =>
                          /\ days = 7 * n
                          /\ card.category = <<"recent", "moderate", "critical">>[n]

C10_Witness ==
    /\ resp.op = "screen"
    /\ \E card \in resp.cards :
          /\ card.check.daysOverdue = 14
          /\ card.category = "moderate"
          /\ getFullYear(resp.at) = parseInt(card.check.year)
    /\ \E card \in resp.cards : card.check.status = "pending"

\* C11: the (year, week) pair the server computes for a date, to detect delay
\* and to key a successor, is the ISO-8601 pair of the date, the year being
\* the ISO week-year: (2025, 1) for 2024-12-30 and for 2025-01-01, (2022, 52)
\* for 2023-01-01.
C11_ServerPairIsWeekOf ==
    /\ (resp.op = "serverWeek") =>
          /\ [year |-> resp.year, week |-> resp.week] = WeekOf(resp.at)
          /\ (resp.at \in {YearStart(2025) - 2, YearStart(2025)}) =>
                (resp.year = 2025 /\ resp.week = 1)
          /\ (resp.at = YearStart(2023)) => (resp.year = 2022 /\ resp.week = 52)
    /\ (resp.op = "successorWeek") =>
          [year |-> resp.year, week |-> resp.week] =
              WeekOf(resp.at + 7 * resp.frequency)

\* C12: for every date the week number of the weekly planner equals the week
\* number of the server.
C12_PlannerWeekIsServerWeek ==
    /\ (resp.op = "plannerWeek") => parseInt(resp.week) = getWeekNumber(resp.at)
    /\ (resp.op = "serverWeek") => resp.week = getWeekNumberUI(resp.at)

C12_Witness ==
    /\ resp.op = "plannerWeek"
    /\ resp.week = toString(53)
    /\ getDay(resp.at) = 0
    /\ getFullYear(resp.at) = 2021

\* C13: when two concurrent completion requests of the same check have both
\* returned, under every interleaving of their store reads and writes, both
\* have succeeded, the check is completed with the completedBy, completedAt
\* and comment of the request that wrote it last, and exactly one successor
\* check exists.
C13_ConcurrentCompletions ==
    (DOMAIN calls = CallIds /\ \A p \in CallIds : calls[p].pc = "done") =>
        LET k    == calls[1].checkId
            last == CHOOSE p \in CallIds :
                       \A q \in CallIds : calls[q].wroteAt <= calls[p].wroteAt
        IN  /\ \A p \in CallIds : calls[p].status = 200
            /\ Has(store, k)
            /\ store[k].status = "completed"
            /\ store[k].completedBy = calls[last].completedBy
            /\ store[k].completedAt = calls[last].completedAt
            /\ store[k].comment = (IF calls[last].comment = NoComment THEN ""
                                   ELSE calls[last].comment)
            /\ Cardinality({x \in CheckKeys(store) :
                               /\ store[x].assignedBy = "system"
                               /\ store[x].status = "pending"}) = 1

\* C14: once a check is completed, no later completion request of its checkId
\* changes its completedAt, completedBy or comment, and no plan or completion
\* request deletes it.
C14_CompletedOnce ==
    [][\A k \in CheckKeys(store) :
         (store[k].status = "completed") =>
            /\ (Served("plan") \/ Served("complete")) => Has(store', k)
            /\ (Served("complete") /\ resp'.checkId = k) =>
                  /\ Has(store', k)
                  /\ store'[k].status = "completed"
                  /\ store'[k].completedAt = store[k].completedAt
                  /\ store'[k].completedBy = store[k].completedBy
                  /\ store'[k].comment = store[k].comment]_vars

\* C15: after a successful device deletion the device record is absent, no
\* stored check, pending or completed, has that deviceId, and the checks of
\* other devices are unchanged.
C15_DeleteCascades ==
    [][(Served("deleteDevice") /\ resp'.status = 200) =>
          LET id == resp'.deviceId
          IN  /\ ~Has(store', id)
              /\ \A k \in CheckKeys(store') : store'[k].deviceId # id
              /\ \A k \in CheckKeys(store) :
                    (store[k].deviceId # id) =>
                        (Has(store', k) /\ store'[k] = store[k])]_vars

C15_Witness ==
    /\ resp.op = "deleteDevice"
    /\ resp.status = 200
    /\ \E k \in DOMAIN store :
          /\ StartsWith(k, <<"plan", ":">>)
          /\ \E i \in DOMAIN store[k].deviceIds : store[k].deviceIds[i] = resp.deviceId
    /\ \E k \in CheckKeys(store) : store[k].status = "pending"

\* the keys whose stored value a step adds, removes or changes
Changed(s, t) ==
    {k \in DOMAIN s \cup DOMAIN t : ~(Has(s, k) /\ Has(t, k) /\ s[k] = t[k])}

\* C16: when a kv call of a plan or completion request reports an error, the
\* request answers with a failure, the failed call is its last kv call (no
\* write after it, no retry), and the store holds no change other than the
\* writes that succeeded before it.
C16_StorageErrorPropagates ==
    [][(Served("plan") \/ Served("complete")) =>
          LET log == resp'.log
          IN  /\ (resp'.failAt \in 1..Len(log)) => log[resp'.failAt].error
              /\ \A i \in DOMAIN log :
                    log[i].error => (i = Len(log) /\ resp'.status = 500)
              /\ \A k \in Changed(store, store') :
                    \E i \in DOMAIN log :
                        log[i].op = "set" /\ log[i].key = k /\ ~log[i].error]_vars

C16_Witness ==
    /\ resp.op = "plan"
    /\ resp.status = 500
    /\ Len(resp.log) = 2
    /\ Len(resp.deviceIds) = 2
    /\ Has(store, PlanKey(resp.year, resp.week))
    /\ ~Has(store, CheckKey(resp.year, resp.week, resp.deviceIds[2]))

\* C17: a storage error in the middle of a completion leaves the writes
\* already applied, without rollback: when the device write fails the check
\* is completed, the device is not updated and no successor is written; when
\* the successor write fails the check is completed, the device is updated
\* and no successor is written.
C17_NoRollback ==
    [][(Served("complete") /\ resp'.status = 500 /\ Len(resp'.log) >= 4) =>
          LET k        == resp'.checkId
              deviceId == store[k].deviceId
          IN  /\ Has(store', k)
              /\ store'[k].status = "completed"
              /\ store'[k].completedBy = resp'.completedBy
              /\ store'[k].completedAt = resp'.at
              /\ IF Len(resp'.log) = 4
                 THEN store'[deviceId] = store[deviceId]
                 ELSE /\ store'[deviceId].lastCheckedAt = resp'.at
                      /\ store'[deviceId].lastCheckedBy = resp'.completedBy
              /\ Changed(store, store') \subseteq {k, deviceId}]_vars

C17_Witness ==
    /\ resp.op = "complete"
    /\ resp.status = 500
    /\ Len(resp.log) = 5
    /\ store[resp.checkId].status = "completed"
    /\ store[store[resp.checkId].deviceId].lastCheckedBy = resp.completedBy
    /\ Cardinality(CheckKeys(store)) = 1

\* C18: a request that lacks a required field, names a week outside 1..53 or
\* completes a check of a device with non-positive plannedFrequency is
\* rejected and writes nothing.
C18_InvalidRejected ==
    [][/\ (Served("plan") /\ parseInt(resp'.week) \notin 1..53) =>
             (resp'.status # 200 /\ store' = store)
       /\ (Served("complete") /\ resp'.completedBy = undefined) =>
             (resp'.status # 200 /\ store' = store)
       /\ (/\ Served("complete")
           /\ Has(store, resp'.checkId)
           /\ Has(store, store[resp'.checkId].deviceId)
           /\ store[store[resp'.checkId].deviceId].plannedFrequency <= 0) =>
             (resp'.status # 200 /\ store' = store)]_vars

\* the value is one the PREVENT_AUTO_SEED guard of set holds back: a user with
\* a sample employee id or a device with a sample identification number
HeldBack(key, value) ==
    /\ PREVENT_AUTO_SEED
    /\ \/ key[1] = "user" /\ value.employeeId = SampleEmployee
       \/ key[1] = "device" /\ value.identificationNumber \in sampleDeviceIds

\* C19: for every key and value, a get after set(k, v) returns v, a set
\* replaces the whole stored value, a get after del(k) returns absent, and
\* del of an absent key is not an error.
C19_RoundTrip ==
    [][/\ (resp'.op = "set") =>
             (Has(store', resp'.key) /\ store'[resp'.key] = resp'.value)
       /\ (resp.op = "set" /\ resp'.op = "get" /\ resp'.key = resp.key) =>
             resp'.value = resp.value
       /\ (resp.op = "del" /\ resp'.op = "get" /\ resp'.key = resp.key) =>
             resp'.value = undefined
       /\ (resp'.op = "del") => (resp'.status = 200 /\ ~Has(store', resp'.key))]_vars

\* C19 (amended): the same, for every key and value but the sample users and
\* sample devices that set holds back while PREVENT_AUTO_SEED is on; such a
\* set leaves the store as it was.
C19_RoundTripUnlessHeldBack ==
    [][/\ (resp'.op = "set") =>
             IF HeldBack(resp'.key, resp'.value) THEN store' = store
             ELSE /\ Has(store', resp'.key) /\ store'[resp'.key] = resp'.value
                  /\ \A k \in DOMAIN store \ {resp'.key} :
                        Has(store', k) /\ store'[k] = store[k]
       /\ (/\ resp.op = "set" /\ resp'.op = "get" /\ resp'.key = resp.key
           /\ ~HeldBack(resp.key, resp.value)) => resp'.value = resp.value
       /\ (resp.op = "del" /\ resp'.op = "get" /\ resp'.key = resp.key) =>
             resp'.value = undefined
       /\ (resp'.op = "del") => (resp'.status = 200 /\ ~Has(store', resp'.key))]_vars

C19_Witness ==
    /\ resp.op = "get"
    /\ resp.key = KvDevice
    /\ Has(store, KvDevice)
    /\ resp.value = store[KvDevice]
    /\ PREVENT_AUTO_SEED
    /\ Has(store, KvUser)

\* C20: a prefix scan returns exactly the stored entries whose key starts
\* with the prefix; for `check:<year>:<week>:` these are the checks of that
\* year and week, none of another week or year and no device or plan record.
C20_ScanIsPrefix ==
    /\ (resp.op = "getByPrefixWithKeys") =>
          resp.rows = {[key |-> k, value |-> store[k]] :
                          k \in {x \in DOMAIN store : StartsWith(x, resp.prefix)}}
    /\ (resp.op = "getByPrefix") =>
          /\ resp.values =
                {store[k] : k \in {x \in DOMAIN store : StartsWith(x, resp.prefix)}}
          /\ \A year \in {toString(2024), toString(2025)},
                week \in {toString(1), toString(10)} :
                (resp.prefix = WeekPrefix(year, week)) =>
                    resp.values = {store[k] : k \in {x \in CheckKeys(store) :
                                      store[x].year = year /\ store[x].week = week}}

RECURSIVE StoredInOrder(_, _)
\* the stored values of the keys of a list, in the order of the list
StoredInOrder(s, keys) ==
    IF keys = <<>> THEN <<>>
    ELSE (IF Has(s, Head(keys)) THEN <<s[Head(keys)]>> ELSE <<>>)
         \o StoredInOrder(s, Tail(keys))

\* C21: mget(keys) returns the values of the keys that exist, in the order
\* of the input keys, the missing ones omitted; mset(keys, values) upserts
\* keys[i] to values[i] for every i.
C21_MgetInInputOrder ==
    [][/\ (resp'.op = "mget") => resp'.values = StoredInOrder(store, resp'.keys)
       /\ (resp'.op = "mset") =>
             \A i \in DOMAIN resp'.keys :
                /\ Has(store', resp'.keys[i])
                /\ store'[resp'.keys[i]] = resp'.values[i]]_vars

\* C22: a completion writes at most three keys (the check, its device, the
\* successor check), a plan request writes only plan:<year>:<week> and the
\* check keys of the listed devices for that week; every other record, the
\* notification settings included, is unchanged, and no key is deleted.
C22_WritesOnlyItsKeys ==
    [][/\ Served("complete") =>
             LET k == resp'.checkId
                 w == Changed(store, store')
             IN  /\ Cardinality(w) <= 3
                 /\ DOMAIN store \subseteq DOMAIN store'
                 /\ (resp'.status # 200) => w = {}
                 /\ (resp'.status = 200) =>
                       \A x \in w \ {k, store[k].deviceId} :
                           /\ x \in CheckKeys(store')
                           /\ store'[x].deviceId = store[k].deviceId
       /\ Served("plan") =>
             /\ DOMAIN store \subseteq DOMAIN store'
             /\ Changed(store, store') \subseteq
                   {PlanKey(resp'.year, resp'.week)} \cup
                   {CheckKey(resp'.year, resp'.week, resp'.deviceIds[i]) :
                       i \in DOMAIN resp'.deviceIds}
       /\ (Served("complete") \/ Served("plan")) =>
             /\ Has(store', NotificationSettingsKey)
             /\ store'[NotificationSettingsKey] = NotificationSettings]_vars

C22_Witness ==
    /\ resp.op = "complete"
    /\ resp.status = 200
    /\ Has(store, NotificationSettingsKey)
    /\ Has(store, resp.nextCheckScheduled.checkId)
    /\ \E k \in CheckKeys(store) :
          store[k].deviceId # resp.check.deviceId /\ store[k].status = "pending"
    /\ \E k \in DOMAIN store :
          StartsWith(k, <<"plan", ":">>) /\ Len(store[k].deviceIds) = 1

\* C23: for every completion instant and every frequency >= 1 the (year, week)
\* stored on the successor is strictly later than the (year, week) the delayed
\* detector computes for the completion instant, so a fresh successor is
\* not reported delayed.
C23_SuccessorIsLater ==
    resp.op = "successorWeek" =>
        /\ Earlier(getFullYear(resp.at), getWeekNumber(resp.at), resp.year, resp.week)
        /\ ~IsDelayed([status |-> "pending", year |-> toString(resp.year),
                       week |-> toString(resp.week)],
                      getFullYear(resp.at), getWeekNumber(resp.at))

\* C24: a pending check that the detector reports delayed at an instant and
\* that is neither completed nor deleted is reported delayed at every later
\* instant, a year boundary in between included.
C24_DelayedStaysDelayed ==
    [][\A c \in DelayedChecks(store, now) :
          (now' > now /\ Has(store', c.id) /\ store'[c.id] = c) =>
              c \in DelayedChecks(store', now')]_vars

\* C25: after a successful completion of a check that the detector reported
\* delayed, the detector at the same instant no longer returns that check.
C25_CompletedLeavesDelayed ==
    [][(/\ Served("complete")
        /\ resp'.status = 200
        /\ store[resp'.checkId] \in DelayedChecks(store, now)) =>
            \A c \in DelayedChecks(store', now) : c.id # resp'.checkId]_vars

\* C26: for every check the detector reports delayed at an instant, the days
\* overdue the screen computes for the same instant is a positive multiple
\* of 7, across year boundaries and in years of 53 weeks too.
C26_OverdueIsWholeWeeks ==
    resp.op = "delayed" =>
        \A check \in resp.checks :
            /\ getDaysOverdue(check, resp.at) >= 7
            /\ getDaysOverdue(check, resp.at) % 7 = 0

\* C27: when a deletion of a device runs concurrently with a completion of
\* one of that device's checks, under every interleaving the final state
\* holds no record of the device and no check with its deviceId.
C27_DeletedDeviceLeavesNothing ==
    (/\ DOMAIN calls = CallIds
     /\ \A p \in CallIds : calls[p].pc = "done"
     /\ calls[2].status = 200
     /\ "deviceId" \in DOMAIN calls[2]) =>
        /\ ~Has(store, calls[2].deviceId)
        /\ \A k \in CheckKeys(store) : store[k].deviceId # calls[2].deviceId

\* C28: in every state reached by device creations, device deletions, plan
\* requests and completions run one at a time, the deviceId of every stored
\* check is the key of a stored device.
C28_CheckRefersToDevice ==
    \A k \in CheckKeys(store) : Has(store, store[k].deviceId)

\* C29: for every stored plan plan:<year>:<week>, the deviceIds of the checks
\* under the prefix check:<year>:<week>: are exactly the plan's deviceIds,
\* also after the week is planned again with other devices and after
\* successors are scheduled into the week.
C29_PlanMatchesChecks ==
    \A k \in DOMAIN store :
        StartsWith(k, <<"plan", ":">>) =>
            LET plan   == store[k]
                checks == getByPrefix(store, WeekPrefix(plan.year, plan.week))
            IN  {check.deviceId : check \in checks} =
                {plan.deviceIds[i] : i \in DOMAIN plan.deviceIds}

\* C30: whenever no completion is in progress, the lastCheckedAt and
\* lastCheckedBy of a device are the completedAt and completedBy of the most
\* recently completed check of that device, under every interleaving of
\* concurrent completions.
C30_DeviceShowsLastCompletion ==
    (/\ DOMAIN calls = CallIds
     /\ \A p \in CallIds : calls[p].pc \in {"getCheck", "done"}) =>
        \A d \in DOMAIN store :
            StartsWith(d, <<"device", ":">>) =>
                LET completed == {store[k] : k \in {x \in CheckKeys(store) :
                                     /\ store[x].deviceId = d
                                     /\ store[x].status = "completed"}}
                    last      == {c \in completed :
                                     \A o \in completed : o.completedAt <= c.completedAt}
                IN  completed # {} =>
                        \E c \in last :
                            /\ store[d].lastCheckedAt = c.completedAt
                            /\ store[d].lastCheckedBy = c.completedBy

====
